---- MODULE Spec2Model ----
(***************************************************************************)
(* HTML -> DOCX conversion service (src/html_to_docx/service.py).          *)
(*                                                                         *)
(* Text is modelled as a sequence of one-character strings, so that the    *)
(* string functions of the service (whitespace normalisation, splitting,   *)
(* the regular expressions) are computed character by character.           *)
(* The input of a conversion is the parse tree html.parser builds; the     *)
(* output is the sequence of blocks appended to the python-docx document.  *)
(***************************************************************************)
EXTENDS Integers, Sequences, FiniteSets, TLC

(***************************************************************************)
(* Bounds of the model.                                                    *)
(***************************************************************************)
\* Longest text node drawn for the whitespace cases.
MaxTextLen == 4
\* Deepest nesting of inline elements drawn.
MaxInlineDepth == 3
\* Longest suffix of a heading tag name drawn.
MaxSuffixLen == 2
\* Most rows, and most cells in a row, of a table drawn.
MaxRows == 2
MaxCells == 2
\* Most children of a wrapper element drawn.
MaxWrapKids == 2
\* Conversions submitted to the thread pool in one behaviour.
MaxCalls == 3

(***************************************************************************)
(* Strings.                                                                *)
(***************************************************************************)
\* The characters matched by \s and removed by str.strip().
WS == {" ", "\t", "\n"}

Digits == {"0", "1", "2", "3", "4", "5", "6", "7", "8", "9"}

DigitVal(c) ==
    CASE c = "0" -> 0 [] c = "1" -> 1 [] c = "2" -> 2 [] c = "3" -> 3
      [] c = "4" -> 4 [] c = "5" -> 5 [] c = "6" -> 6 [] c = "7" -> 7
      [] c = "8" -> 8 [] c = "9" -> 9

\* str.lower() on the letters the model uses in upper case.
LowerChar(c) ==
    CASE c = "P" -> "p" [] c = "X" -> "x" [] c = "R" -> "r" [] c = "D" -> "d"
      [] c = "W" -> "w" [] OTHER -> c

Lower(s) == [i \in 1..Len(s) |-> LowerChar(s[i])]

RECURSIVE LStrip(_)
LStrip(s) == IF s # <<>> /\ Head(s) \in WS THEN LStrip(Tail(s)) ELSE s

RECURSIVE RStrip(_)
RStrip(s) ==
    IF s # <<>> /\ s[Len(s)] \in WS THEN RStrip(SubSeq(s, 1, Len(s) - 1)) ELSE s

\* str.strip()
Strip(s) == RStrip(LStrip(s))

\* re.sub(r"\s+", " ", text)
RECURSIVE CollapseWs(_)
CollapseWs(s) ==
    IF s = <<>> THEN <<>>
    ELSE IF Head(s) \in WS THEN <<" ">> \o CollapseWs(LStrip(s))
    ELSE <<Head(s)>> \o CollapseWs(Tail(s))

_normalize_ws(text) == Strip(CollapseWs(text))

\* s[i:] of Python, with i counted from 1.
From(s, i) == SubSeq(s, i, Len(s))

\* s.startswith(lit), case-insensitively when the regular expression is.
StartsWithCI(s, lit) ==
    /\ Len(s) >= Len(lit)
    /\ Lower(SubSeq(s, 1, Len(lit))) = Lower(lit)

\* Position of the first c in s, or 0.
RECURSIVE IndexFrom(_, _, _)
IndexFrom(s, c, i) ==
    IF i > Len(s) THEN 0 ELSE IF s[i] = c THEN i ELSE IndexFrom(s, c, i + 1)

IndexOf(s, c) == IndexFrom(s, c, 1)

\* str.split(c)
RECURSIVE Split(_, _)
Split(s, c) ==
    LET i == IndexOf(s, c)
    IN  IF i = 0 THEN <<s>>
        ELSE <<SubSeq(s, 1, i - 1)>> \o Split(From(s, i + 1), c)

\* sep.join(parts)
RECURSIVE Join(_, _)
Join(parts, sep) ==
    IF parts = <<>> THEN <<>>
    ELSE IF Len(parts) = 1 THEN parts[1]
    ELSE parts[1] \o sep \o Join(Tail(parts), sep)

\* Length of the longest prefix of s made of characters of set.
RECURSIVE Span(_, _)
Span(s, set) == IF s # <<>> /\ Head(s) \in set THEN 1 + Span(Tail(s), set) ELSE 0

\* Value of a string of decimal digits.
RECURSIVE DecVal(_)
DecVal(s) ==
    IF s = <<>> THEN 0 ELSE 10 * DecVal(SubSeq(s, 1, Len(s) - 1)) + DigitVal(s[Len(s)])

(***************************************************************************)
(* Python dicts: a sequence of <<key, value>> pairs with distinct keys, in *)
(* insertion order.                                                        *)
(***************************************************************************)
EmptyDict == <<>>

RECURSIVE DictFind(_, _, _)
DictFind(d, k, i) ==
    IF i > Len(d) THEN 0 ELSE IF d[i][1] = k THEN i ELSE DictFind(d, k, i + 1)

\* d.get(k, default)
DictGet(d, k, default) ==
    LET i == DictFind(d, k, 1) IN IF i = 0 THEN default ELSE d[i][2]

\* d[k] = v
DictSet(d, k, v) ==
    LET i == DictFind(d, k, 1)
    IN  IF i = 0 THEN Append(d, <<k, v>>) ELSE [d EXCEPT ![i] = <<k, v>>]

\* d.update(e)
RECURSIVE DictUpdate(_, _)
DictUpdate(d, e) ==
    IF e = <<>> THEN d ELSE DictUpdate(DictSet(d, e[1][1], e[1][2]), Tail(e))

(***************************************************************************)
(* Style resolution.                                                       *)
(***************************************************************************)
\* One part of the split: "k: v" sets out[k.strip().lower()] = v.strip().
StylePart(out, part) ==
    LET i == IndexOf(part, ":")
        k == Lower(Strip(SubSeq(part, 1, i - 1)))
        v == Strip(From(part, i + 1))
    IN  IF i = 0 THEN out ELSE IF k # <<>> THEN DictSet(out, k, v) ELSE out

RECURSIVE StyleParts(_, _)
StyleParts(out, parts) ==
    IF parts = <<>> THEN out
    ELSE StyleParts(StylePart(out, Head(parts)), Tail(parts))

_parse_style_attr(style) == StyleParts(EmptyDict, Split(style, ";"))

\* [A-Za-z0-9_-], on the letters the model uses.
ClassChars == Digits \cup {"a", "b", "c", "d", "t", "r", "-", "_"}

\* Position of the first "*/" at or after i, or 0.
RECURSIVE CommentEnd(_, _)
CommentEnd(s, i) ==
    IF i + 1 > Len(s) THEN 0
    ELSE IF s[i] = "*" /\ s[i + 1] = "/" THEN i
    ELSE CommentEnd(s, i + 1)

\* re.sub(r"/\*[\s\S]*?\*/", "", css_text)
RECURSIVE RemoveComments(_)
RemoveComments(s) ==
    IF s = <<>> THEN <<>>
    ELSE IF Len(s) >= 2 /\ s[1] = "/" /\ s[2] = "*" /\ CommentEnd(s, 3) # 0
         THEN RemoveComments(From(s, CommentEnd(s, 3) + 2))
    ELSE <<Head(s)>> \o RemoveComments(Tail(s))

\* A match of \.(?P<cls>[A-Za-z0-9_-]+)\s*\{(?P<body>[^}]+)\} at the head of s:
\* [ok, cls, body, len].
RuleMatch(s) ==
    LET n    == IF Len(s) >= 1 /\ s[1] = "." THEN Span(Tail(s), ClassChars) ELSE 0
        rest == From(s, n + 2)
        w    == Span(rest, WS)
        open == From(rest, w + 1)
        close == IndexOf(open, "}")
    IN  IF n > 0 /\ open # <<>> /\ Head(open) = "{" /\ close > 2
        THEN [ok |-> TRUE, cls |-> SubSeq(s, 2, n + 1),
              body |-> SubSeq(open, 2, close - 1), len |-> 1 + n + w + close]
        ELSE [ok |-> FALSE, cls |-> <<>>, body |-> <<>>, len |-> 0]

\* The loop over re.finditer: out[cls] = _parse_style_attr(body).
RECURSIVE ClassRules(_, _)
ClassRules(out, s) ==
    IF s = <<>> THEN out
    ELSE LET m == RuleMatch(s)
         IN  IF m.ok
             THEN ClassRules(DictSet(out, m.cls, _parse_style_attr(m.body)),
                             From(s, m.len + 1))
             ELSE ClassRules(out, Tail(s))

_parse_css_class_rules(css_text) ==
    IF css_text = <<>> THEN EmptyDict
    ELSE ClassRules(EmptyDict, RemoveComments(css_text))

(***************************************************************************)
(* The parse tree (bs4).  A node is a text node (NavigableString) or a tag *)
(* with its attributes and children; an attribute is absent (None) or set. *)
(***************************************************************************)
Absent == [set |-> FALSE, v |-> <<>>]

Val(s) == [set |-> TRUE, v |-> s]

NoAttrs ==
    [class |-> Absent, style |-> Absent, href |-> Absent, src |-> Absent,
     border |-> Absent, width |-> Absent]

T(text) == [kind |-> "text", name |-> <<>>, attrs |-> NoAttrs, text |-> text, kids |-> <<>>]

E(name, attrs, kids) ==
    [kind |-> "tag", name |-> name, attrs |-> attrs, text |-> <<>>, kids |-> kids]

\* tag.get(a) or "" (or [] for the class list)
OrEmpty(a) == IF a.set THEN a.v ELSE <<>>

tH1 == <<"h", "1">>
tH2 == <<"h", "2">>
tH3 == <<"h", "3">>
tH4 == <<"h", "4">>
tH5 == <<"h", "5">>
tH6 == <<"h", "6">>
tP == <<"p">>
tDiv == <<"d", "i", "v">>
tSection == <<"s", "e", "c", "t", "i", "o", "n">>
tArticle == <<"a", "r", "t", "i", "c", "l", "e">>
tHeader == <<"h", "e", "a", "d", "e", "r">>
tFooter == <<"f", "o", "o", "t", "e", "r">>
tTable == <<"t", "a", "b", "l", "e">>
tUl == <<"u", "l">>
tOl == <<"o", "l">>
tLi == <<"l", "i">>
tImg == <<"i", "m", "g">>
tHr == <<"h", "r">>
tTr == <<"t", "r">>
tTd == <<"t", "d">>
tTh == <<"t", "h">>
tStrong == <<"s", "t", "r", "o", "n", "g">>
tB == <<"b">>
tEm == <<"e", "m">>
tI == <<"i">>
tU == <<"u">>
tA == <<"a">>
tBr == <<"b", "r">>
tSpan == <<"s", "p", "a", "n">>
tMain == <<"m", "a", "i", "n">>
tBlockquote == <<"b", "l", "o", "c", "k", "q", "u", "o", "t", "e">>
tBody == <<"b", "o", "d", "y">>
tHtml == <<"h", "t", "m", "l">>
tHead == <<"h", "e", "a", "d">>
tStyle == <<"s", "t", "y", "l", "e">>
tScript == <<"s", "c", "r", "i", "p", "t">>
tDocument == <<"[", "d", "o", "c", "u", "m", "e", "n", "t", "]">>

BLOCK_TAGS ==
    {tH1, tH2, tH3, tH4, tH5, tH6, tP, tDiv, tSection, tArticle, tHeader,
     tFooter, tTable, tUl, tOl, tLi, tImg, tHr}

RECURSIVE FlatMap(_, _)
FlatMap(F(_), s) == IF s = <<>> THEN <<>> ELSE F(Head(s)) \o FlatMap(F, Tail(s))

IsTag(n) == n.kind = "tag"

_iter_child_nodes(tag) ==
    SelectSeq(tag.kids, LAMBDA c : IsTag(c) \/ Strip(c.text) # <<>>)

\* The strings below a node, as get_text(sep, strip=True) collects them:
\* each stripped, the empty ones left out.
RECURSIVE StrippedStrings(_)
StrippedStrings(node) ==
    IF IsTag(node) THEN FlatMap(StrippedStrings, node.kids)
    ELSE IF Strip(node.text) = <<>> THEN <<>> ELSE <<Strip(node.text)>>

\* tag.get_text(" ", strip=True)
get_text_stripped(node) == Join(StrippedStrings(node), <<" ">>)

\* The strings below a node, unstripped (get_text(sep)).
RECURSIVE AllStrings(_)
AllStrings(node) ==
    IF IsTag(node) THEN FlatMap(AllStrings, node.kids) ELSE <<node.text>>

\* tag.find_all(name): the descendants of that name, in document order.
RECURSIVE find_all(_, _)
find_all(node, names) ==
    FlatMap(LAMBDA c : IF IsTag(c)
                       THEN (IF c.name \in names THEN <<c>> ELSE <<>>)
                            \o find_all(c, names)
                       ELSE <<>>,
            node.kids)

(***************************************************************************)
(* _style_map_for and _closest_text_align_right.  `styles` is the value of *)
(* the module-level _CSS_CLASS_STYLES at the time of the call.             *)
(***************************************************************************)
RECURSIVE MergeClasses(_, _, _)
MergeClasses(merged, classes, styles) ==
    IF classes = <<>> THEN merged
    ELSE MergeClasses(DictUpdate(merged, DictGet(styles, Head(classes), EmptyDict)),
                      Tail(classes), styles)

_style_map_for(tag, styles) ==
    DictUpdate(MergeClasses(EmptyDict, OrEmpty(tag.attrs.class), styles),
               _parse_style_attr(OrEmpty(tag.attrs.style)))

kTextAlign == <<"t", "e", "x", "t", "-", "a", "l", "i", "g", "n">>
kMaxWidth == <<"m", "a", "x", "-", "w", "i", "d", "t", "h">>
kWidth == <<"w", "i", "d", "t", "h">>
sRight == <<"r", "i", "g", "h", "t">>

\* One step of the loop of _closest_text_align_right: the test made on `cur`.
AlignsRight(tag, styles) ==
    Lower(DictGet(_style_map_for(tag, styles), kTextAlign, <<>>)) = sRight

\* `up` tells whether the loop, continued at tag.parent, finds a right-aligned
\* ancestor.
_closest_text_align_right(tag, up, styles) == AlignsRight(tag, styles) \/ up

(***************************************************************************)
(* The document built through python-docx: blocks (paragraphs and tables)  *)
(* appended to a container, runs appended to a paragraph.                  *)
(***************************************************************************)
\* CSS pixels per inch (Inches(max_w_px / 96.0)).
PxPerInch == 96

InlineStyle(bold, italic, underline) ==
    [bold |-> bold, italic |-> italic, underline |-> underline]

NoStyle == InlineStyle(FALSE, FALSE, FALSE)

\* width=None: the picture keeps its natural size.
NaturalWidth == [given |-> FALSE, num |-> 0, den |-> 1]

\* Inches(px / 96.0), kept as the fraction num/den of an inch.
Inches(num, den) == [given |-> TRUE, num |-> num, den |-> den]

Run(kind, text, style) ==
    [kind |-> kind, text |-> text, bold |-> style.bold, italic |-> style.italic,
     underline |-> style.underline, color |-> "", size |-> 0, rel |-> <<>>,
     width |-> NaturalWidth]

Para(style, level, align, runs) ==
    [kind |-> "paragraph", style |-> style, level |-> level, align |-> align,
     runs |-> runs, borders |-> "", rows |-> <<>>]

TableBlock(style, borders, rows) ==
    [kind |-> "table", style |-> style, level |-> 0, align |-> "",
     runs |-> <<>>, borders |-> borders, rows |-> rows]

\* cell.text = text, and paragraphs[0].text = "": one paragraph of one run.
TextCell(text) == <<Para("Normal", 0, "", <<Run("run", text, NoStyle)>>)>>

(***************************************************************************)
(* _add_hyperlink: the runs it appends to the paragraph.  A link run       *)
(* carries in `rel` the target of the relationship registered for it.      *)
(***************************************************************************)
\* A variant of _add_hyperlink without the plain-run fallback.
_add_hyperlink_always(url, text, style) ==
    <<[Run("hyperlink", text, InlineStyle(style.bold, style.italic, TRUE))
       EXCEPT !.color = "0000FF", !.rel = <<url>>]>>

_add_hyperlink(url, text, style) ==
    IF url = <<>>
    THEN <<Run("run", text, style)>>
    ELSE <<[Run("hyperlink", text, InlineStyle(style.bold, style.italic, TRUE))
            EXCEPT !.color = "0000FF", !.rel = <<url>>]>>

(***************************************************************************)
(* _process_inline: the runs appended to the paragraph for one node.       *)
(***************************************************************************)
\* new_style of <strong>, <b>.
WithBold(style) == InlineStyle(TRUE \/ style.bold, style.italic, style.underline)

\* A variant of WithItalic that drops what the parent had.
ItalicOnly(style) == InlineStyle(FALSE, TRUE, FALSE)

\* new_style of <em>, <i>.
WithItalic(style) == InlineStyle(style.bold, TRUE \/ style.italic, style.underline)

\* new_style of <u>.
WithUnderline(style) == InlineStyle(style.bold, style.italic, TRUE \/ style.underline)

RECURSIVE _process_inline(_, _)
_process_inline(node, style) ==
    IF ~IsTag(node)
    THEN IF node.text = <<>> THEN <<>> ELSE <<Run("run", node.text, style)>>
    ELSE IF node.name \in {tStrong, tB}
    THEN FlatMap(LAMBDA c : _process_inline(c, WithBold(style)), _iter_child_nodes(node))
    ELSE IF node.name \in {tEm, tI}
    THEN FlatMap(LAMBDA c : _process_inline(c, WithItalic(style)), _iter_child_nodes(node))
    ELSE IF node.name = tU
    THEN FlatMap(LAMBDA c : _process_inline(c, WithUnderline(style)), _iter_child_nodes(node))
    ELSE IF node.name = tBr
    THEN <<Run("break", <<>>, NoStyle)>>
    ELSE IF node.name = tA
    THEN LET url  == Strip(OrEmpty(node.attrs.href))
             norm == _normalize_ws(get_text_stripped(node))
             text == IF norm # <<>> THEN norm ELSE url
         IN  _add_hyperlink(url, text, style)
    ELSE IF node.name = tImg
    THEN <<>>
    ELSE FlatMap(LAMBDA c : _process_inline(c, style), _iter_child_nodes(node))

(***************************************************************************)
(* _extract_px and _add_image.                                             *)
(***************************************************************************)
None == [none |-> TRUE, n |-> 0]

Some(n) == [none |-> FALSE, n |-> n]

\* `not x` for an int | None.
Falsy(x) == x.none \/ x.n = 0

\* \s*px at the head of s, ignoring case.
PxSuffix(s) == StartsWithCI(From(s, Span(s, WS) + 1), <<"p", "x">>)

\* A match of (\d+(?:\.\d+)?)\s*px at the head of s, and int(float(group 1)).
PxMatch(s) ==
    LET n    == Span(s, Digits)
        rest == From(s, n + 1)
        f    == IF rest # <<>> /\ Head(rest) = "." THEN Span(Tail(rest), Digits) ELSE 0
    IN  IF n > 0 /\ ((f > 0 /\ PxSuffix(From(rest, f + 2))) \/ PxSuffix(rest))
        THEN Some(DecVal(SubSeq(s, 1, n)))
        ELSE None

\* re.search: the leftmost match.
RECURSIVE PxSearch(_)
PxSearch(s) ==
    IF s = <<>> THEN None
    ELSE IF ~PxMatch(s).none THEN PxMatch(s)
    ELSE PxSearch(Tail(s))

_extract_px(style_map, prop) ==
    LET val == DictGet(style_map, Lower(prop), <<>>)
    IN  IF val = <<>> THEN None ELSE PxSearch(val)

\* int(s) of a stripped string: an optional sign and digits, else ValueError.
IntOf(s) ==
    LET signed == s # <<>> /\ Head(s) \in {"-", "+"}
        body   == IF signed THEN Tail(s) ELSE s
    IN  IF body # <<>> /\ Span(body, Digits) = Len(body)
        THEN Some(IF signed /\ Head(s) = "-" THEN 0 - DecVal(body) ELSE DecVal(body))
        ELSE None

\* int(str(img.get("width") or "").strip() or "0") or None, None on ValueError.
WidthAttr(img) ==
    LET s == Strip(OrEmpty(img.attrs.width))
        v == IF s = <<>> THEN Some(0) ELSE IntOf(s)
    IN  IF Falsy(v) THEN None ELSE v

B64Alphabet ==
    Digits \cup {"A", "B", "C", "D", "Q", "U", "J", "R", "V", "O", "G", "i", "l", "+", "/"}

\* binascii.a2b_base64 without validation: characters outside the alphabet
\* are skipped, a complete padding ends the input, and the data must end on
\* a whole quantum.
RECURSIVE B64Ok(_, _, _)
B64Ok(s, quad, pads) ==
    IF s = <<>> THEN quad = 0
    ELSE IF Head(s) = "="
    THEN IF quad >= 2 /\ quad + pads + 1 >= 4 THEN TRUE
         ELSE B64Ok(Tail(s), quad, pads + 1)
    ELSE IF Head(s) \in B64Alphabet THEN B64Ok(Tail(s), (quad + 1) % 4, 0)
    ELSE B64Ok(Tail(s), quad, pads)

\* Whether run.add_picture recognises the decoded bytes: a PNG or GIF
\* signature ("iVBO...", "R0lG..." in base64).
PictureOk(b64) ==
    /\ Len(b64) >= 4
    /\ SubSeq(b64, 1, 4) \in {<<"i", "V", "B", "O">>, <<"R", "0", "l", "G">>}

sDataImage == <<"d", "a", "t", "a", ":", "i", "m", "a", "g", "e", "/">>
sBase64 == <<";", "b", "a", "s", "e", "6", "4", ",">>

\* re.match(r"^data:image/(?P<fmt>[^;]+);base64,(?P<b64>.+)$", src, I | S)
DataUriMatch(src) ==
    LET rest == From(src, Len(sDataImage) + 1)
        semi == IndexOf(rest, ";")
        tail == From(rest, semi)
        b64  == From(tail, Len(sBase64) + 1)
    IN  IF StartsWithCI(src, sDataImage) /\ semi > 1
           /\ StartsWithCI(tail, sBase64) /\ b64 # <<>>
        THEN [ok |-> TRUE, b64 |-> b64]
        ELSE [ok |-> FALSE, b64 |-> <<>>]

\* A variant of ImageWidthPx that asks width before max-width.
ImageWidthPxWidthFirst(img, styles) ==
    LET style_map == _style_map_for(img, styles)
        a == _extract_px(style_map, kWidth)
        b == IF Falsy(a) THEN _extract_px(style_map, kMaxWidth) ELSE a
    IN  IF Falsy(b) THEN WidthAttr(img) ELSE b

\* max_w_px as _add_image resolves it.
ImageWidthPx(img, styles) ==
    LET style_map == _style_map_for(img, styles)
        a == _extract_px(style_map, kMaxWidth)
        b == IF Falsy(a) THEN _extract_px(style_map, kWidth) ELSE a
    IN  IF Falsy(b) THEN WidthAttr(img) ELSE b

\* The blocks _add_image appends to the container.
_add_image(img, up, styles) ==
    LET src == Strip(OrEmpty(img.attrs.src))
        m   == DataUriMatch(src)
        max_w_px == ImageWidthPx(img, styles)
        width == IF Falsy(max_w_px) THEN NaturalWidth ELSE Inches(max_w_px.n, PxPerInch)
        align == IF _closest_text_align_right(img, up, styles) THEN "right" ELSE ""
    IN  IF src = <<>> THEN <<>>
        ELSE IF ~m.ok THEN <<>>
        ELSE IF ~B64Ok(m.b64, 0, 0) THEN <<>>
        ELSE IF PictureOk(m.b64)
        THEN <<Para("Normal", 0, align,
                    <<[Run("picture", <<>>, NoStyle) EXCEPT !.width = width]>>)>>
        ELSE <<Para("Normal", 0, align, <<Run("run", <<>>, NoStyle)>>)>>

(***************************************************************************)
(* Tables.                                                                 *)
(***************************************************************************)
sDataTable == <<"d", "a", "t", "a", "-", "t", "a", "b", "l", "e">>

InSeq(x, s) == \E i \in 1..Len(s) : s[i] = x

\* A variant of _is_real_table that does not trim the border attribute.
_is_real_table_untrimmed(table) ==
    IF ~IsTag(table) \/ table.name # tTable THEN FALSE
    ELSE IF InSeq(sDataTable, OrEmpty(table.attrs.class)) THEN TRUE
    ELSE IF find_all(table, {tTh}) # <<>> THEN TRUE
    ELSE IF table.attrs.border.set /\ table.attrs.border.v \notin {<<"0">>, <<>>} THEN TRUE
    ELSE FALSE

_is_real_table(table) ==
    IF ~IsTag(table) \/ table.name # tTable THEN FALSE
    ELSE IF InSeq(sDataTable, OrEmpty(table.attrs.class)) THEN TRUE
    ELSE IF find_all(table, {tTh}) # <<>> THEN TRUE
    ELSE IF table.attrs.border.set /\ table.attrs.border.v # <<>>
            /\ Strip(table.attrs.border.v) \notin {<<"0">>, <<>>} THEN TRUE
    ELSE FALSE

\* A variant of OwnRows that takes the rows of nested tables too.
RECURSIVE OwnRowsNested(_, _, _)
OwnRowsNested(node, up, styles) ==
    FlatMap(LAMBDA c :
                IF ~IsTag(c) THEN <<>>
                ELSE (IF c.name = tTr THEN <<[tr |-> c, up |-> up]>> ELSE <<>>)
                     \o OwnRowsNested(c, up \/ AlignsRight(c, styles), styles),
            node.kids)

\* [tr for tr in table_tag.find_all("tr") if tr.find_parent("table") is table_tag]:
\* the rows met below `node` before another <table> is entered, each with
\* whether one of its ancestors aligns right.
RECURSIVE OwnRows(_, _, _)
OwnRows(node, up, styles) ==
    FlatMap(LAMBDA c :
                IF ~IsTag(c) THEN <<>>
                ELSE (IF c.name = tTr THEN <<[tr |-> c, up |-> up]>> ELSE <<>>)
                     \o (IF c.name = tTable THEN <<>>
                         ELSE OwnRows(c, up \/ AlignsRight(c, styles), styles)),
            node.kids)

\* r.find_all(["td", "th"], recursive=False)
RowCells(tr) == SelectSeq(tr.kids, LAMBDA c : IsTag(c) /\ c.name \in {tTd, tTh})

Max(a, b) == IF a >= b THEN a ELSE b

RECURSIVE MaxCols(_)
MaxCols(rows) ==
    IF rows = <<>> THEN 0 ELSE Max(Len(RowCells(Head(rows).tr)), MaxCols(Tail(rows)))

_process_table(table_tag, up, styles) ==
    LET rows     == OwnRows(table_tag, up \/ AlignsRight(table_tag, styles), styles)
        max_cols == MaxCols(rows)
    IN  IF rows = <<>> THEN <<>>
        ELSE IF max_cols = 0 THEN <<>>
        ELSE <<TableBlock("Table Grid", "grid",
                 [i \in 1..Len(rows) |->
                    [j \in 1..max_cols |->
                       LET cells == RowCells(rows[i].tr)
                       IN  IF j > Len(cells) THEN TextCell(<<>>)
                           ELSE TextCell(_normalize_ws(get_text_stripped(cells[j])))]])>>

(***************************************************************************)
(* Headings, paragraphs, rules.                                            *)
(***************************************************************************)
\* A variant of HeadingLevel without the clamp.
HeadingLevelUnclamped(name) ==
    IF name # <<>> /\ Head(name) = "h" /\ Len(name) >= 2
       /\ Span(Tail(name), Digits) = Len(name) - 1
    THEN DigitVal(name[2]) ELSE 2

\* int(tag.name[1]) if tag.name.startswith("h") and tag.name[1:].isdigit() else 2,
\* then max(1, min(6, level)).
HeadingLevel(name) ==
    LET level == IF name # <<>> /\ Head(name) = "h" /\ Len(name) >= 2
                    /\ Span(Tail(name), Digits) = Len(name) - 1
                 THEN DigitVal(name[2]) ELSE 2
    IN  Max(1, IF level <= 6 THEN level ELSE 6)

\* The run of a heading, styled by level.
HeadingRun(text, level) ==
    LET r == Run("run", text, NoStyle)
    IN  IF level = 1 THEN [r EXCEPT !.size = 18, !.bold = TRUE]
        ELSE IF level = 2 THEN [r EXCEPT !.size = 15, !.bold = TRUE, !.color = "0066CC"]
        ELSE IF level = 3 THEN [r EXCEPT !.size = 13, !.bold = TRUE]
        ELSE r

\* `cont` is "document" (it has add_heading) or "cell" (it has not).
_process_heading(cont, tag) ==
    LET level == HeadingLevel(tag.name)
        text  == _normalize_ws(get_text_stripped(tag))
    IN  IF text = <<>> THEN <<>>
        ELSE IF cont = "document"
        THEN <<Para("Heading", level, "", <<HeadingRun(text, level)>>)>>
        ELSE <<Para("Normal", 0, "", <<HeadingRun(text, level)>>)>>

InlineRuns(tag) ==
    FlatMap(LAMBDA c : _process_inline(c, NoStyle), _iter_child_nodes(tag))

_process_paragraph(tag) == <<Para("Normal", 0, "", InlineRuns(tag))>>

\* The em dash of the placeholder rule is written "-".
_process_hr == <<Para("Normal", 0, "", <<Run("run", [i \in 1..20 |-> "-"], NoStyle)>>)>>

(***************************************************************************)
(* The block dispatcher.  Each operator gives the blocks appended to the   *)
(* container; `up` tells whether an ancestor of the tag aligns right.      *)
(***************************************************************************)
RECURSIVE _process_block(_, _, _, _)
RECURSIVE _process_container(_, _, _, _)
RECURSIVE _process_list(_, _, _, _, _)
RECURSIVE _process_layout_table_as_docx_table(_, _, _)

IsBlockChild(child) ==
    /\ IsTag(child)
    /\ child.name \in BLOCK_TAGS
    /\ child.name \notin {tStrong, tB, tEm, tI, tU, tA, tBr, tSpan}

\* One <li> of _process_list: its paragraph, then the blocks of its block children.
ListItem(cont, li, style_name, up, styles) ==
    LET kids == _iter_child_nodes(li)
    IN  <<Para(style_name, 0, "",
               FlatMap(LAMBDA c : IF IsBlockChild(c) THEN <<>>
                                  ELSE _process_inline(c, NoStyle), kids))>>
        \o FlatMap(LAMBDA c : IF IsBlockChild(c)
                              THEN _process_block(cont, c, up \/ AlignsRight(li, styles), styles)
                              ELSE <<>>, kids)

_process_list(cont, lst, ordered, up, styles) ==
    FlatMap(LAMBDA li : ListItem(cont, li, IF ordered THEN "List Number" ELSE "List Bullet",
                                 up \/ AlignsRight(lst, styles), styles),
            SelectSeq(lst.kids, LAMBDA c : IsTag(c) /\ c.name = tLi))

_process_layout_table_as_docx_table(table_tag, up, styles) ==
    LET rows     == OwnRows(table_tag, up \/ AlignsRight(table_tag, styles), styles)
        max_cols == MaxCols(rows)
    IN  IF rows = <<>> THEN <<>>
        ELSE IF max_cols = 0 THEN <<>>
        ELSE <<TableBlock("", "nil",
                 [i \in 1..Len(rows) |->
                    [j \in 1..max_cols |->
                       LET cells == RowCells(rows[i].tr)
                       IN  IF j > Len(cells) THEN TextCell(<<>>)
                           ELSE TextCell(<<>>)
                                \o _process_container("cell", cells[j],
                                       rows[i].up \/ AlignsRight(rows[i].tr, styles),
                                       styles)]])>>

_process_block(cont, tag, up, styles) ==
    IF tag.name \in {tH1, tH2, tH3, tH4, tH5, tH6} THEN _process_heading(cont, tag)
    ELSE IF tag.name = tP THEN _process_paragraph(tag)
    ELSE IF tag.name = tImg THEN _add_image(tag, up, styles)
    ELSE IF tag.name = tHr THEN _process_hr
    ELSE IF tag.name \in {tUl, tOl} THEN _process_list(cont, tag, tag.name = tOl, up, styles)
    ELSE IF tag.name = tLi THEN <<Para("List Bullet", 0, "", InlineRuns(tag))>>
    ELSE IF tag.name = tTable
    THEN IF _is_real_table(tag) THEN _process_table(tag, up, styles)
         ELSE _process_layout_table_as_docx_table(tag, up, styles)
    ELSE _process_container(cont, tag, up, styles)

\* A variant of ContainerChild that builds every wrapper inline.
ContainerChildInline(cont, child, up, styles) ==
    IF ~IsTag(child)
    THEN IF _normalize_ws(child.text) # <<>>
         THEN <<Para("Normal", 0, "", <<Run("run", _normalize_ws(child.text), NoStyle)>>)>>
         ELSE <<>>
    ELSE IF child.name \in BLOCK_TAGS \ {tDiv, tSection, tArticle, tHeader, tFooter}
    THEN _process_block(cont, child, up, styles)
    ELSE <<Para("Normal", 0, "", _process_inline(child, NoStyle))>>

\* One iteration of the loop of _process_container, on `child`.
ContainerChild(cont, child, up, styles) ==
    IF ~IsTag(child)
    THEN IF _normalize_ws(child.text) # <<>>
         THEN <<Para("Normal", 0, "", <<Run("run", _normalize_ws(child.text), NoStyle)>>)>>
         ELSE <<>>
    ELSE IF child.name \in BLOCK_TAGS THEN _process_block(cont, child, up, styles)
    ELSE <<Para("Normal", 0, "", _process_inline(child, NoStyle))>>

_process_container(cont, container, up, styles) ==
    FlatMap(LAMBDA child : ContainerChild(cont, child, up \/ AlignsRight(container, styles), styles),
            _iter_child_nodes(container))

(***************************************************************************)
(* _html_to_docx_sync, step by step.                                       *)
(***************************************************************************)
\* "\n".join((t.get_text("\n") or "") for t in soup.find_all("style"))
StyleText(soup) ==
    LET blocks == find_all(soup, {tStyle})
    IN  Join([i \in 1..Len(blocks) |-> Join(AllStrings(blocks[i]), <<"\n">>)], <<"\n">>)

\* for t in soup.find_all(["script", "style"]): t.decompose()
RECURSIVE RemoveNoise(_)
RemoveNoise(node) ==
    IF ~IsTag(node) THEN node
    ELSE [node EXCEPT !.kids =
            FlatMap(LAMBDA c : IF IsTag(c) /\ c.name \in {tScript, tStyle} THEN <<>>
                               ELSE <<RemoveNoise(c)>>, node.kids)]

\* The <body> tags below node in document order, each with whether one of
\* its ancestors aligns right.
RECURSIVE Bodies(_, _, _)
Bodies(node, up, styles) ==
    FlatMap(LAMBDA c :
                IF ~IsTag(c) THEN <<>>
                ELSE (IF c.name = tBody THEN <<[node |-> c, up |-> up]>> ELSE <<>>)
                     \o Bodies(c, up \/ AlignsRight(c, styles), styles),
            node.kids)

\* root = soup.body or soup
Root(soup, styles) ==
    LET b == Bodies(soup, FALSE, styles)
    IN  IF b # <<>> THEN Head(b) ELSE [node |-> soup, up |-> FALSE]

\* _process_container(doc, root), the whole loop.
WalkAll(soup, styles) ==
    LET r == Root(soup, styles)
    IN  _process_container("document", r.node, r.up, styles)

(***************************************************************************)
(* The documents submitted for conversion.                                 *)
(***************************************************************************)
sA == <<"a">>
sB == <<"b">>

\* data:image/p;base64,iVBO : a payload that decodes and is a picture.
sPicture == sDataImage \o <<"p">> \o sBase64 \o <<"i", "V", "B", "O">>

Css(cls, prop, value) == <<".">> \o cls \o <<"{">> \o prop \o <<":">> \o value \o <<"}">>

ImgOfClass(cls) == E(tImg, [NoAttrs EXCEPT !.class = Val(<<cls>>), !.src = Val(sPicture)], <<>>)

StyleBlock(css) == E(tStyle, NoAttrs, <<T(css)>>)

Soup(kids) == E(tDocument, NoAttrs, kids)

ConvDocs ==
    { Soup(<<E(tHtml, NoAttrs,
               <<E(tHead, NoAttrs, <<StyleBlock(Css(sA, kWidth, <<"9", "6", "p", "x">>))>>),
                 E(tBody, NoAttrs, <<ImgOfClass(sA), E(tP, NoAttrs, <<T(sA)>>)>>)>>)>>),
      Soup(<<E(tHtml, NoAttrs,
               <<E(tHead, NoAttrs, <<StyleBlock(Css(sA, kWidth, <<"1", "9", "2", "p", "x">>))>>),
                 E(tBody, NoAttrs, <<ImgOfClass(sA), ImgOfClass(sA)>>)>>)>>),
      Soup(<<E(tScript, NoAttrs, <<T(sA)>>), E(tP, NoAttrs, <<T(sB)>>), ImgOfClass(sA)>>),
      Soup(<<E(tBody, NoAttrs,
               <<StyleBlock(Css(sB, kTextAlign, sRight)),
                 E(tDiv, [NoAttrs EXCEPT !.class = Val(<<sB>>)], <<ImgOfClass(sA)>>)>>)>>) }

(***************************************************************************)
(* State.                                                                  *)
(***************************************************************************)
Workers == {"w1", "w2"}

VARIABLES
    _CSS_CLASS_STYLES,  \* the module-level class table
    pc,                 \* where each thread-pool worker stands in _html_to_docx_sync
    html,               \* its html_content
    soup,               \* its parse tree
    doc,                \* the blocks of its Document
    idx,                \* the child of root its loop is at
    margins,            \* the page margins of its Document
    err,                \* the exception its try block raised, "" if none
    returned,           \* what the call returned
    raised,             \* what the call raised
    calls,              \* conversions submitted so far
    call                \* the last direct call of a walker function (SpecWalk)

conv == <<_CSS_CLASS_STYLES, pc, html, soup, doc, idx, margins, err, returned, raised, calls>>

vars == <<conv, call>>

NoTree == T(<<>>)

NoBuffer == [saved |-> FALSE, blocks |-> <<>>, margins |-> ""]

NoCall ==
    [fn |-> "", input |-> [family |-> ""], node |-> NoTree, cont |-> "",
     style |-> NoStyle, styles |-> EmptyDict, out |-> <<>>]

InitConv ==
    /\ _CSS_CLASS_STYLES = EmptyDict
    /\ pc = [w \in Workers |-> "idle"]
    /\ html = [w \in Workers |-> NoTree]
    /\ soup = [w \in Workers |-> NoTree]
    /\ doc = [w \in Workers |-> <<>>]
    /\ idx = [w \in Workers |-> 0]
    /\ margins = [w \in Workers |-> ""]
    /\ err = [w \in Workers |-> ""]
    /\ returned = [w \in Workers |-> NoBuffer]
    /\ raised = [w \in Workers |-> <<>>]
    /\ calls = 0

Init == InitConv /\ call = NoCall

(***************************************************************************)
(* Conversions on the thread pool.                                         *)
(***************************************************************************)
\* convert_html_to_docx: run_in_threadpool hands the call to an idle worker.
convert_html_to_docx(w) ==
    /\ pc[w] = "idle"
    /\ calls < MaxCalls
    /\ \E h \in ConvDocs : html' = [html EXCEPT ![w] = h]
    /\ pc' = [pc EXCEPT ![w] = "parse"]
    /\ calls' = calls + 1
    /\ UNCHANGED <<_CSS_CLASS_STYLES, soup, doc, idx, margins, err, returned, raised, call>>

\* soup = BeautifulSoup(html_content, "html.parser")
Parse(w) ==
    /\ pc[w] = "parse"
    /\ soup' = [soup EXCEPT ![w] = html[w]]
    /\ pc' = [pc EXCEPT ![w] = "styles"]
    /\ UNCHANGED <<_CSS_CLASS_STYLES, html, doc, idx, margins, err, returned, raised, calls, call>>

\* _CSS_CLASS_STYLES = _parse_css_class_rules(css_text)
BuildStyles(w) ==
    /\ pc[w] = "styles"
    /\ _CSS_CLASS_STYLES' = _parse_css_class_rules(StyleText(soup[w]))
    /\ pc' = [pc EXCEPT ![w] = "noise"]
    /\ UNCHANGED <<html, soup, doc, idx, margins, err, returned, raised, calls, call>>

DropNoise(w) ==
    /\ pc[w] = "noise"
    /\ soup' = [soup EXCEPT ![w] = RemoveNoise(soup[w])]
    /\ pc' = [pc EXCEPT ![w] = "newdoc"]
    /\ UNCHANGED <<_CSS_CLASS_STYLES, html, doc, idx, margins, err, returned, raised, calls, call>>

\* doc = Document(); _set_default_document_style(doc)
NewDocument(w) ==
    /\ pc[w] = "newdoc"
    /\ doc' = [doc EXCEPT ![w] = <<>>]
    /\ margins' = [margins EXCEPT ![w] = "default"]
    /\ pc' = [pc EXCEPT ![w] = "margins"]
    /\ UNCHANGED <<_CSS_CLASS_STYLES, html, soup, idx, err, returned, raised, calls, call>>

\* The four margins set to Cm(1).
SetMargins(w) ==
    /\ pc[w] = "margins"
    /\ margins' = [margins EXCEPT ![w] = "1cm"]
    /\ pc' = [pc EXCEPT ![w] = "walk"]
    /\ idx' = [idx EXCEPT ![w] = 1]
    /\ UNCHANGED <<_CSS_CLASS_STYLES, html, soup, doc, err, returned, raised, calls, call>>

\* A variant of MarginsFail in which the exception reaches the outer handler.
MarginsFailRaises(w) ==
    /\ pc[w] = "margins"
    /\ err' = [err EXCEPT ![w] = "margins"]
    /\ pc' = [pc EXCEPT ![w] = "except"]
    /\ UNCHANGED <<_CSS_CLASS_STYLES, html, soup, doc, idx, margins, returned, raised, calls, call>>

\* The inner try: an exception while setting the margins is passed over.
MarginsFail(w) ==
    /\ pc[w] = "margins"
    /\ pc' = [pc EXCEPT ![w] = "walk"]
    /\ idx' = [idx EXCEPT ![w] = 1]
    /\ UNCHANGED <<_CSS_CLASS_STYLES, html, soup, doc, margins, err, returned, raised, calls, call>>

\* _process_container(doc, root): one turn of its loop, under the class table
\* as it stands when the turn runs.
WalkStep(w) ==
    LET r    == Root(soup[w], _CSS_CLASS_STYLES)
        kids == _iter_child_nodes(r.node)
    IN  /\ pc[w] = "walk"
        /\ IF idx[w] > Len(kids)
           THEN /\ pc' = [pc EXCEPT ![w] = "save"]
                /\ UNCHANGED <<doc, idx>>
           ELSE /\ doc' = [doc EXCEPT ![w] = @ \o
                     ContainerChild("document", kids[idx[w]],
                                    r.up \/ AlignsRight(r.node, _CSS_CLASS_STYLES),
                                    _CSS_CLASS_STYLES)]
                /\ idx' = [idx EXCEPT ![w] = @ + 1]
                /\ UNCHANGED pc
        /\ UNCHANGED <<_CSS_CLASS_STYLES, html, soup, margins, err, returned, raised, calls, call>>

\* The frame of _html_to_docx_sync is left: its locals are gone.
Unwound(w) ==
    /\ html' = [html EXCEPT ![w] = NoTree]
    /\ soup' = [soup EXCEPT ![w] = NoTree]
    /\ doc' = [doc EXCEPT ![w] = <<>>]
    /\ idx' = [idx EXCEPT ![w] = 0]
    /\ margins' = [margins EXCEPT ![w] = ""]

\* buffer = BytesIO(); doc.save(buffer); buffer.seek(0); return buffer
SaveAndReturn(w) ==
    /\ pc[w] = "save"
    /\ returned' = [returned EXCEPT ![w] =
                      [saved |-> TRUE, blocks |-> doc[w], margins |-> margins[w]]]
    /\ pc' = [pc EXCEPT ![w] = "done"]
    /\ Unwound(w)
    /\ UNCHANGED <<_CSS_CLASS_STYLES, err, raised, calls, call>>

\* The steps inside the outer try, the margins apart.
TrySteps == {"parse", "styles", "noise", "newdoc", "walk", "save"}

\* A step of the try block raises: control passes to the except clause.
Raise(w) ==
    /\ pc[w] \in TrySteps
    /\ err' = [err EXCEPT ![w] = pc[w]]
    /\ pc' = [pc EXCEPT ![w] = "except"]
    /\ UNCHANGED <<_CSS_CLASS_STYLES, html, soup, doc, idx, margins, returned, raised, calls, call>>

HTMLConversionError(e) ==
    [type |-> "HTMLConversionError", detail |-> <<"Erro na conversao HTML para DOCX: ", e>>]

\* except Exception as e: raise HTMLConversionError(...)
Except(w) ==
    /\ pc[w] = "except"
    /\ raised' = [raised EXCEPT ![w] = Append(@, HTMLConversionError(err[w]))]
    /\ pc' = [pc EXCEPT ![w] = "done"]
    /\ Unwound(w)
    /\ UNCHANGED <<_CSS_CLASS_STYLES, err, returned, calls, call>>

\* The caller takes the outcome; the worker returns to the pool.
Finish(w) ==
    /\ pc[w] = "done"
    /\ pc' = [pc EXCEPT ![w] = "idle"]
    /\ err' = [err EXCEPT ![w] = ""]
    /\ returned' = [returned EXCEPT ![w] = NoBuffer]
    /\ raised' = [raised EXCEPT ![w] = <<>>]
    /\ UNCHANGED <<_CSS_CLASS_STYLES, html, soup, doc, idx, margins, calls, call>>

Next ==
    \E w \in Workers :
        \/ convert_html_to_docx(w)
        \/ Parse(w)
        \/ BuildStyles(w)
        \/ DropNoise(w)
        \/ NewDocument(w)
        \/ SetMargins(w)
        \/ MarginsFail(w)
        \/ WalkStep(w)
        \/ SaveAndReturn(w)
        \/ Raise(w)
        \/ Except(w)
        \/ Finish(w)

Spec == Init /\ [][Next]_vars

(***************************************************************************)
(* The walker functions called directly, on inputs drawn from bounded      *)
(* sets.                                                                   *)
(***************************************************************************)
SeqsUpTo(S, n) == UNION {[1..k -> S] : k \in 0..n}

Styles8 == {InlineStyle(b, i, u) : b \in BOOLEAN, i \in BOOLEAN, u \in BOOLEAN}

Conts == {"document", "cell"}

\* Class tables a conversion may have built.
StyleTables ==
    { EmptyDict,
      _parse_css_class_rules(Css(sA, kWidth, <<"1", "9", "2", "p", "x">>)),
      _parse_css_class_rules(Css(sA, kMaxWidth, <<"9", "6", "p", "x">>)
                             \o Css(sB, kTextAlign, sRight)) }

\* --- text nodes ---------------------------------------------------------
Texts == SeqsUpTo({" ", "\n", "a"}, MaxTextLen)

TextPlaces == {"loose", "p", "li", "b", "span"}

TextDoc(place, t) ==
    E(tBody, NoAttrs,
      <<CASE place = "loose" -> T(t)
          [] place = "p" -> E(tP, NoAttrs, <<T(t)>>)
          [] place = "li" -> E(tUl, NoAttrs, <<E(tLi, NoAttrs, <<T(t)>>)>>)
          [] place = "b" -> E(tP, NoAttrs, <<E(tB, NoAttrs, <<T(t)>>)>>)
          [] place = "span" -> E(tSpan, NoAttrs, <<T(t)>>)>>)

\* --- inline elements ----------------------------------------------------
Markers == {tB, tStrong, tI, tEm, tU, tSpan}

\* <m1>a<m2>a ... <mk>b</mk> ... </m2></m1>: the first `lead` elements start
\* with the text "a", the innermost holds the text "b".
RECURSIVE Nest(_, _)
Nest(ms, lead) ==
    IF ms = <<>> THEN T(sB)
    ELSE E(Head(ms), NoAttrs,
           (IF lead > 0 THEN <<T(sA)>> ELSE <<>>)
           \o <<Nest(Tail(ms), IF lead > 0 THEN lead - 1 ELSE 0)>>)

\* How many of the elements of a chain start with text: none, the outermost, all.
Leads(ms) == {0, IF ms = <<>> THEN 0 ELSE 1, Len(ms)}

InlineStyles == {NoStyle, InlineStyle(TRUE, FALSE, FALSE), InlineStyle(FALSE, TRUE, TRUE)}

\* --- hyperlinks ---------------------------------------------------------
sUrl == <<"u">>

Hrefs == {Absent, Val(<<>>), Val(<<" ">>), Val(sUrl), Val(<<" ", "u", " ">>)}

\* The children of an anchor, with the visible text they make.
AnchorCases ==
    { [kids |-> <<>>, text |-> <<>>],
      [kids |-> <<T(sA)>>, text |-> sA],
      [kids |-> <<T(<<" ", "a", " ", " ", "b", "\n">>)>>, text |-> <<"a", " ", "b">>],
      [kids |-> <<T(sA), E(tB, NoAttrs, <<T(sB)>>)>>, text |-> <<"a", " ", "b">>],
      [kids |-> <<T(<<" ">>)>>, text |-> <<>>] }

\* --- headings -----------------------------------------------------------
SuffixChars == {"0", "1", "2", "6", "7", "9", "x"}

HeadingNames == {<<"h">> \o x : x \in SeqsUpTo(SuffixChars, MaxSuffixLen)} \cup {tP}

HeadingKids == {<<>>, <<T(sA)>>, <<T(<<" ", "a", " ", " ", "b">>)>>}

\* --- images -------------------------------------------------------------
\* CSS lengths, with the pixels each gives (-1: none).
PxCases ==
    { [v |-> <<"1", "9", "2", "p", "x">>, px |-> 192],
      [v |-> <<"0", "p", "x">>, px |-> 0],
      [v |-> <<"5", "0", "%">>, px |-> -1],
      [v |-> <<"1", ".", "5", "p", "x">>, px |-> 1],
      [v |-> <<"1", "2", " ", "P", "X">>, px |-> 12],
      [v |-> <<>>, px |-> -1] }

NoDecl == [v |-> <<"-">>, px |-> -1]

\* The width attribute, with the integer it gives (0: none).
WidthCases ==
    { [a |-> Absent, n |-> 0],
      [a |-> Val(<<"1", "5", "0">>), n |-> 150],
      [a |-> Val(<<" ", "7", " ">>), n |-> 7],
      [a |-> Val(<<"0">>), n |-> 0],
      [a |-> Val(<<"7", "p", "x">>), n |-> 0] }

\* The class rule of the image's class, with the pixels its max-width and
\* width give.
ClassCases ==
    { [class |-> Absent, styles |-> EmptyDict, mw |-> -1, w |-> -1],
      [class |-> Val(<<sA>>), styles |-> EmptyDict, mw |-> -1, w |-> -1],
      [class |-> Val(<<sA>>),
       styles |-> _parse_css_class_rules(Css(sA, kWidth, <<"9", "6", "p", "x">>)),
       mw |-> -1, w |-> 96],
      [class |-> Val(<<sA>>),
       styles |-> _parse_css_class_rules(
                     Css(sA, kMaxWidth, <<"4", "8", "p", "x">> \o <<";">> \o kWidth
                                        \o <<":">> \o <<"2", "4", "p", "x">>)),
       mw |-> 48, w |-> 24] }

Decl(prop, d) == IF d = NoDecl THEN <<>> ELSE prop \o <<":", " ">> \o d.v \o <<";">>

\* Image sources: [src, emits] with whether a paragraph is due.
SrcCases ==
    { [src |-> Val(sPicture), kind |-> "picture"],
      [src |-> Val(<<" ">> \o sPicture \o <<" ">>), kind |-> "picture"],
      [src |-> Absent, kind |-> "none"],
      [src |-> Val(<<" ">>), kind |-> "none"],
      [src |-> Val(<<"u", ".", "p", "n", "g">>), kind |-> "remote"],
      [src |-> Val(sDataImage \o <<"p">> \o sBase64 \o <<"i", "V", "B", "O", "A">>),
       kind |-> "undecodable"],
      [src |-> Val(sDataImage \o <<"p">> \o sBase64 \o <<"Q", "U", "J", "D">>),
       kind |-> "rejected"] }

ImageInputs ==
    [family : {"image"}, src : SrcCases, mw : PxCases \cup {NoDecl},
     w : PxCases \cup {NoDecl}, attr : WidthCases, cls : ClassCases,
     right : BOOLEAN]

ImageOf(in) ==
    E(tImg,
      [NoAttrs EXCEPT
         !.src = in.src.src,
         !.class = in.cls.class,
         !.width = in.attr.a,
         !.style = IF in.mw = NoDecl /\ in.w = NoDecl /\ ~in.right THEN Absent
                   ELSE Val(Decl(kMaxWidth, in.mw) \o Decl(kWidth, in.w)
                            \o (IF in.right THEN kTextAlign \o <<":">> \o sRight ELSE <<>>))],
      <<>>)

\* --- tables ---------------------------------------------------------------
TableInputs ==
    [family : {"table"},
     class : {Absent, Val(<<sA>>), Val(<<sA, sDataTable>>)},
     border : {Absent, Val(<<>>), Val(<<"0">>), Val(<<" ", "0", " ">>), Val(<<"1">>)},
     header : BOOLEAN,                  \* the cells of the first row are <th>
     nest : {"none", "td", "th"},       \* a table nested in the first cell
     tbody : BOOLEAN,                   \* the rows stand in a <tbody>
     cells : SeqsUpTo(0..MaxCells, MaxRows)]

\* The nested table: more rows and cells than its host may have.
NestedTable(cell) ==
    E(tTable, NoAttrs,
      [i \in 1..(MaxRows + 1) |->
         E(tTr, NoAttrs, [j \in 1..(MaxCells + 1) |-> E(cell, NoAttrs, <<T(sB)>>)])])

TableOf(in) ==
    LET cell(i, j) ==
            E(IF in.header /\ i = 1 THEN tTh ELSE tTd, NoAttrs,
              <<T(<<" ", "a", " ">>)>>
              \o (IF i = 1 /\ j = 1 /\ in.nest # "none"
                  THEN <<NestedTable(IF in.nest = "th" THEN tTh ELSE tTd)>> ELSE <<>>))
        rows == [i \in 1..Len(in.cells) |->
                   E(tTr, NoAttrs, [j \in 1..in.cells[i] |-> cell(i, j)])]
    IN  E(tTable, [NoAttrs EXCEPT !.class = in.class, !.border = in.border],
          IF in.tbody THEN <<E(<<"t", "b", "o", "d", "y">>, NoAttrs, rows)>> ELSE rows)

\* --- wrappers -------------------------------------------------------------
Wrappers == {tDiv, tSection, tArticle, tHeader, tFooter, tMain, tBlockquote, tSpan}

WrapAttrs ==
    { NoAttrs,
      [NoAttrs EXCEPT !.style = Val(kTextAlign \o <<":">> \o sRight)],
      [NoAttrs EXCEPT !.class = Val(<<sB>>)] }

BlockSamples ==
    { E(tP, NoAttrs, <<T(sA)>>),
      T(sB),
      E(tH1, NoAttrs, <<T(sA)>>),
      ImgOfClass(sA),
      E(tI, NoAttrs, <<T(sA)>>),
      E(tTable, NoAttrs, <<E(tTr, NoAttrs, <<E(tTd, NoAttrs, <<ImgOfClass(sA)>>)>>)>>) }

WrapInputs ==
    [family : {"wrap"}, name : Wrappers, attrs : WrapAttrs,
     kids : SeqsUpTo(BlockSamples, MaxWrapKids)]

Before == <<E(tP, NoAttrs, <<T(sB)>>)>>
After == <<T(sA)>>

\* The wrapper between two siblings, and the same with the wrapper's
\* children in its place.
Wrapped(in) == E(tBody, NoAttrs, Before \o <<E(in.name, in.attrs, in.kids)>> \o After)

Spliced(in) == E(tBody, NoAttrs, Before \o in.kids \o After)

\* --- the calls ------------------------------------------------------------
\* One call is made in a behaviour.
Called(fn, in, node, cont, style, styles, out) ==
    [fn |-> fn, input |-> in, node |-> node, cont |-> cont,
     style |-> style, styles |-> styles, out |-> out]

CallContainerText ==
    /\ call = NoCall
    /\ \E place \in TextPlaces, t \in Texts, cont \in Conts :
         LET node == TextDoc(place, t)
         IN  call' = Called("_process_container",
                            [family |-> "text", place |-> place, text |-> t],
                            node, cont, NoStyle, EmptyDict,
                            _process_container(cont, node, FALSE, EmptyDict))
    /\ UNCHANGED conv

CallContainerWrap ==
    /\ call = NoCall
    /\ \E in \in WrapInputs, cont \in Conts, styles \in StyleTables :
         call' = Called("_process_container", in, Wrapped(in), cont, NoStyle, styles,
                        _process_container(cont, Wrapped(in), FALSE, styles))
    /\ UNCHANGED conv

CallInline ==
    /\ call = NoCall
    /\ \E ms \in SeqsUpTo(Markers, MaxInlineDepth), style \in InlineStyles :
       \E lead \in Leads(ms) :
         LET node == Nest(ms, lead)
         IN  call' = Called("_process_inline",
                            [family |-> "inline", markers |-> ms, lead |-> lead],
                            node, "", style, EmptyDict, _process_inline(node, style))
    /\ UNCHANGED conv

CallInlineAnchor ==
    /\ call = NoCall
    /\ \E href \in Hrefs, c \in AnchorCases, style \in Styles8 :
         LET node == E(tA, [NoAttrs EXCEPT !.href = href], c.kids)
         IN  call' = Called("_process_inline",
                            [family |-> "anchor", href |-> href, text |-> c.text],
                            node, "", style, EmptyDict, _process_inline(node, style))
    /\ UNCHANGED conv

CallHeading ==
    /\ call = NoCall
    /\ \E name \in HeadingNames, kids \in HeadingKids, cont \in Conts :
         LET node == E(name, NoAttrs, kids)
         IN  call' = Called("_process_heading", [family |-> "heading"], node, cont,
                            NoStyle, EmptyDict, _process_heading(cont, node))
    /\ UNCHANGED conv

CallImage ==
    /\ call = NoCall
    /\ \E in \in ImageInputs :
         call' = Called("_add_image", in, ImageOf(in), "document", NoStyle, in.cls.styles,
                        _add_image(ImageOf(in), FALSE, in.cls.styles))
    /\ UNCHANGED conv

CallTable ==
    /\ call = NoCall
    /\ \E in \in TableInputs, cont \in Conts :
         call' = Called("_process_block", in, TableOf(in), cont, NoStyle, EmptyDict,
                        _process_block(cont, TableOf(in), FALSE, EmptyDict))
    /\ UNCHANGED conv

NextWalk ==
    \/ CallContainerText
    \/ CallContainerWrap
    \/ CallInline
    \/ CallInlineAnchor
    \/ CallHeading
    \/ CallImage
    \/ CallTable

SpecWalk == Init /\ [][NextWalk]_vars


(***************************************************************************)
(* Claims.                                                                 *)
(***************************************************************************)
\* The class table a conversion's own <style> blocks give.
OwnStyles(w) == _parse_css_class_rules(StyleText(html[w]))

\* The blocks of the first n children of root, walked under `styles`.
WalkPrefix(tree, styles, n) ==
    LET r    == Root(tree, styles)
        kids == _iter_child_nodes(r.node)
    IN  FlatMap(LAMBDA c : ContainerChild("document", c,
                                          r.up \/ AlignsRight(r.node, styles), styles),
                SubSeq(kids, 1, n))

\* C1: concurrent conversions are isolated: while a conversion walks its
\* tree, every style lookup answers from the rules of its own <style>
\* blocks, so the blocks it has appended are those its own rules give.
C1_Isolated ==
    \A w \in Workers :
        pc[w] \in {"walk", "save"}
            => doc[w] = WalkPrefix(soup[w], OwnStyles(w), idx[w] - 1)

\* C2: a conversion ends with a buffer returned or with one
\* HTMLConversionError carrying the description of the error raised, never
\* both; a step that raises gives the error and no buffer; the margins
\* failing is never what gives the error.
C2_Outcome ==
    \A w \in Workers :
        pc[w] = "done"
            => /\ IF err[w] = ""
                  THEN returned[w].saved /\ raised[w] = <<>>
                  ELSE /\ returned[w] = NoBuffer
                       /\ raised[w] = <<[type |-> "HTMLConversionError",
                                         detail |-> <<"Erro na conversao HTML para DOCX: ",
                                                      err[w]>>]>>
               /\ err[w] \in {"", "parse", "styles", "noise", "newdoc", "walk", "save"}

C2_Witness ==
    \E w, v \in Workers :
        /\ pc[w] = "done" /\ returned[w].saved /\ returned[w].margins = "default"
        /\ pc[v] = "done" /\ err[v] = "walk" /\ Len(raised[v]) = 1

\* The runs of a sequence of blocks, those in table cells included.
RECURSIVE RunsOf(_)
RunsOf(blocks) ==
    FlatMap(LAMBDA b : IF b.kind = "table"
                       THEN FlatMap(LAMBDA row : FlatMap(RunsOf, row), b.rows)
                       ELSE b.runs,
            blocks)

\* Whitespace-normalized: single spaces only, none at either end.
IsNormalized(s) ==
    \A i \in 1..Len(s) :
        s[i] \in WS => s[i] = " " /\ 1 < i /\ i < Len(s) /\ s[i + 1] \notin WS

\* C3: the text of every run or paragraph emitted for a text node is
\* whitespace-normalized, under a container and inside a paragraph, list
\* item or inline element alike.
C3_TextNormalized ==
    call.fn = "_process_container" /\ call.input.family = "text"
        => \A i \in 1..Len(RunsOf(call.out)) : IsNormalized(RunsOf(call.out)[i].text)

\* C4: a table is a data table (bordered grid) exactly when it has the class
\* marker data-table, or a <th> descendant, or a border attribute whose
\* trimmed value is neither empty nor "0"; otherwise it is a layout table
\* (borders removed).
C4_Classification ==
    call.fn = "_process_block" /\ call.input.family = "table"
        => LET in     == call.input
               marker == in.class = Val(<<sA, sDataTable>>)
               cell   == Len(in.cells) >= 1 /\ in.cells[1] >= 1
               th     == cell /\ (in.header \/ in.nest = "th")
               border == in.border = Val(<<"1">>)
               data   == marker \/ th \/ border
           IN  /\ _is_real_table(call.node) = data
               /\ \A i \in 1..Len(call.out) :
                     /\ call.out[i].kind = "table"
                     /\ call.out[i].borders = IF data THEN "grid" ELSE "nil"
                     /\ call.out[i].style = IF data THEN "Table Grid" ELSE ""

C4_Witness ==
    /\ call.fn = "_process_block" /\ call.input.family = "table"
    /\ call.input.border = Val(<<"1">>) /\ call.input.class = Absent
    /\ ~call.input.header /\ call.input.nest = "none"
    /\ call.out # <<>> /\ call.out[1].borders = "grid"

RECURSIVE SeqMax(_)
SeqMax(s) == IF s = <<>> THEN 0 ELSE Max(Head(s), SeqMax(Tail(s)))

\* C5: the grid of a table, data or layout, has one row per <tr> of its own
\* (the rows of nested tables left out) and as many columns as its widest
\* row has direct cells; the missing cells are empty; no rows or no columns,
\* no table.
C5_Grid ==
    call.fn = "_process_block" /\ call.input.family = "table"
        => LET in == call.input
               n  == Len(in.cells)
               m  == SeqMax(in.cells)
           IN  IF n = 0 \/ m = 0 THEN call.out = <<>>
               ELSE /\ Len(call.out) = 1
                    /\ call.out[1].kind = "table"
                    /\ Len(call.out[1].rows) = n
                    /\ \A i \in 1..n :
                          /\ Len(call.out[1].rows[i]) = m
                          /\ \A j \in 1..m :
                                j > in.cells[i]
                                    => /\ Len(call.out[1].rows[i][j]) = 1
                                       /\ Len(call.out[1].rows[i][j][1].runs) = 1
                                       /\ call.out[1].rows[i][j][1].runs[1].text = <<>>

C5_Witness ==
    /\ call.fn = "_process_block" /\ call.input.family = "table"
    /\ call.input.nest = "td" /\ call.input.cells = <<2, 1>>
    /\ ~_is_real_table(call.node)
    /\ Len(call.out) = 1 /\ Len(call.out[1].rows) = 2 /\ Len(call.out[1].rows[2]) = 2

\* C6: a text run carries the flags its style had on entry plus those of
\* the marker elements around it, and no others: each child gets its
\* parent's flags plus the one of the marker, none is ever cleared.
C6_InlineFlags ==
    call.fn = "_process_inline" /\ call.input.family = "inline"
        => LET ms   == call.input.markers
               lead == call.input.lead
               has(k, names) == \E i \in 1..k : ms[i] \in names
               run(text, k) ==
                   [kind |-> "run", text |-> text,
                    bold |-> call.style.bold \/ has(k, {tB, tStrong}),
                    italic |-> call.style.italic \/ has(k, {tI, tEm}),
                    underline |-> call.style.underline \/ has(k, {tU}),
                    color |-> "", size |-> 0, rel |-> <<>>, width |-> NaturalWidth]
           IN  call.out = [i \in 1..(lead + 1) |->
                             IF i <= lead THEN run(sA, i) ELSE run(sB, Len(ms))]

\* <b>a<i>b</i></b>: "a" bold only, "b" bold and italic.
C6_Witness ==
    /\ call.fn = "_process_inline" /\ call.input.family = "inline"
    /\ call.input.markers = <<tB, tI>> /\ call.input.lead = 1 /\ call.style = NoStyle
    /\ Len(call.out) = 2
    /\ call.out[1].text = sA /\ call.out[1].bold /\ ~call.out[1].italic
    /\ call.out[2].text = sB /\ call.out[2].bold /\ call.out[2].italic
    /\ ~call.out[1].underline /\ ~call.out[2].underline

\* C7: an anchor without a target (href missing, empty or blank) gives one
\* plain run of its visible text in the current style and registers no
\* relationship; one with a target registers one external relationship and
\* gives one link run of its normalized text, or of the URL when that is
\* empty, underlined, bold and italic as the current style.
C7_Hyperlink ==
    call.fn = "_process_inline" /\ call.input.family = "anchor"
        => LET in    == call.input
               blank == in.href \in {Absent, Val(<<>>), Val(<<" ">>)}
           IN  /\ Len(call.out) = 1
               /\ IF blank
                  THEN /\ call.out[1].kind = "run"
                       /\ call.out[1].text = in.text
                       /\ call.out[1].rel = <<>>
                       /\ call.out[1].color = ""
                       /\ call.out[1].bold = call.style.bold
                       /\ call.out[1].italic = call.style.italic
                       /\ call.out[1].underline = call.style.underline
                  ELSE /\ call.out[1].kind = "hyperlink"
                       /\ call.out[1].rel = <<sUrl>>
                       /\ call.out[1].text = IF in.text # <<>> THEN in.text ELSE sUrl
                       /\ call.out[1].underline
                       /\ call.out[1].bold = call.style.bold
                       /\ call.out[1].italic = call.style.italic

C7_Witness ==
    /\ call.fn = "_process_inline" /\ call.input.family = "anchor"
    /\ call.input.href = Val(<<" ">>) /\ call.input.text = <<"a", " ", "b">>
    /\ call.style = InlineStyle(TRUE, FALSE, FALSE)
    /\ Len(call.out) = 1 /\ call.out[1].kind = "run" /\ call.out[1].bold
    /\ call.out[1].rel = <<>>

\* The styling of a heading of a level: size, colour.
LevelSize(level) == IF level = 1 THEN 18 ELSE IF level = 2 THEN 15 ELSE IF level = 3 THEN 13 ELSE 0

HeadingAsLevel(level) ==
    /\ Len(call.out) = 1
    /\ call.out[1].kind = "paragraph"
    /\ call.cont = "document" => call.out[1].style = "Heading" /\ call.out[1].level = level
    /\ Len(call.out[1].runs) = 1
    /\ call.out[1].runs[1].size = LevelSize(level)
    /\ call.out[1].runs[1].bold = (level <= 3)
    /\ call.out[1].runs[1].color = IF level = 2 THEN "0066CC" ELSE ""

AllDigits(s) == s # <<>> /\ \A i \in 1..Len(s) : s[i] \in Digits

C9_ImageWidth ==
    call.fn = "_add_image" /\ call.input.src.kind = "picture"
        => LET in == call.input
               mw == IF in.mw # NoDecl THEN in.mw.px ELSE in.cls.mw
               w  == IF in.w # NoDecl THEN in.w.px ELSE in.cls.w
               px == IF mw > 0 THEN mw ELSE IF w > 0 THEN w ELSE in.attr.n
           IN  /\ Len(call.out) = 1
               /\ Len(call.out[1].runs) = 1
               /\ call.out[1].runs[1].kind = "picture"
               /\ IF px = 0
                  THEN ~call.out[1].runs[1].width.given
                  ELSE /\ call.out[1].runs[1].width.given
                       /\ call.out[1].runs[1].width.num = px
                       /\ call.out[1].runs[1].width.den = 96

\* A width of 192px: 2 inches.
C9_Witness ==
    /\ call.fn = "_add_image" /\ call.input.src.kind = "picture"
    /\ call.input.mw = NoDecl /\ call.input.w.px = 192 /\ call.input.cls.class = Absent
    /\ call.out # <<>>
    /\ call.out[1].runs[1].width.given
    /\ call.out[1].runs[1].width.num = 2 * call.out[1].runs[1].width.den

\* The blocks with their alignment cleared, in table cells too.
RECURSIVE ClearAlign(_)
ClearAlign(blocks) ==
    [i \in 1..Len(blocks) |->
       LET b == blocks[i]
       IN  IF b.kind = "table"
           THEN [b EXCEPT !.rows = [r \in 1..Len(b.rows) |->
                                      [c \in 1..Len(b.rows[r]) |-> ClearAlign(b.rows[r][c])]]]
           ELSE [b EXCEPT !.align = ""]]

\* C10 as claimed: an element that is no heading, paragraph, image, rule,
\* list, list item or table is transparent: the blocks appended are those
\* appended were its children in its place.
C10_Transparent ==
    call.fn = "_process_container" /\ call.input.family = "wrap"
        => call.out = _process_container(call.cont, Spliced(call.input), FALSE, call.styles)

\* C10 as amended: div, section, article, header and footer are transparent,
\* except that the images below one that aligns right are aligned right; an
\* element of any other name is put whole into one new paragraph.
C10_TransparentBlocks ==
    call.fn = "_process_container" /\ call.input.family = "wrap"
        => LET in      == call.input
               spliced == _process_container(call.cont, Spliced(in), FALSE, call.styles)
               right   == \/ in.attrs.style.set
                          \/ in.attrs.class.set /\ DictGet(call.styles, sB, EmptyDict) # EmptyDict
           IN  IF in.name \in {tDiv, tSection, tArticle, tHeader, tFooter}
               THEN /\ ClearAlign(call.out) = ClearAlign(spliced)
                    /\ ~right => call.out = spliced
               ELSE /\ Len(call.out) = 3
                    /\ call.out[2].kind = "paragraph"
                    /\ call.out[2].style = "Normal"
                    /\ call.out[1] = spliced[1]
                    /\ call.out[3] = spliced[Len(spliced)]

C10_Witness ==
    /\ call.fn = "_process_container" /\ call.input.family = "wrap"
    /\ call.input.name = tDiv /\ call.input.attrs = NoAttrs
    /\ call.input.kids = <<E(tP, NoAttrs, <<T(sA)>>), E(tH1, NoAttrs, <<T(sA)>>)>>
    /\ Len(call.out) = 4
    /\ call.out[3].runs[1].size = 18

\* C11: skipping an image leaves the destination as it was: for an empty
\* source, a source that is no data:image/...;base64 value, a payload that
\* fails base64 decoding, and image data add_picture rejects, _add_image
\* appends no paragraph, run or picture.
C11_SkipNoop ==
    call.fn = "_add_image" /\ call.input.src.kind # "picture"
        => call.out = <<>>

\* A conversion that has walked its first node and has not yet serialized.
Walking(w) == (pc[w] = "walk" /\ idx[w] > 1) \/ pc[w] = "save"

\* C12: from the first node a conversion walks until it serializes, the
\* class-style table it uses is not reassigned: no step taken while a
\* conversion is walking changes the table.
C12_TableStable ==
    [][\A w \in Workers : Walking(w) => _CSS_CLASS_STYLES' = _CSS_CLASS_STYLES]_vars

====
